---------------------------- MODULE Spec2Model ----------------------------
(***************************************************************************)
(* Sudoku solver of cmput366/assignment/assignment2/starter/main.py:       *)
(* Grid, the two variable selectors, the Sudoku-specific AC3 and the       *)
(* backtracking search, driven as main() drives them for one puzzle.       *)
(*                                                                         *)
(* Encoding.  A puzzle string is a sequence of characters; the character   *)
(* '.' is written Dot and the character of a digit d is written d.  A      *)
(* domain (a Python str of digit characters) is the sequence of its        *)
(* characters.  Python lists are heap objects: a Grid's _cells is a list   *)
(* of references to row lists, so `grids` maps a Grid to the addresses of  *)
(* its rows and `rows` maps an address to the row's domains.  Coordinates  *)
(* are 0-based as in the source.                                           *)
(*                                                                         *)
(* Spec runs main() on one line of the problem file, FairSpec is Spec with  *)
(* the loop of consistency kept running; GridSpec runs a client of         *)
(* Grid.copy that changes a grid and its copy in turn; OrderSpec runs a    *)
(* client of AC3.consistency that takes the elements of Q in any order.    *)
(***************************************************************************)
EXTENDS Integers, Sequences, FiniteSets, TLC

VARIABLES
    puzzle,     \* main: the line p of the problem file being solved
    pc,         \* main: position in the body of the loop over the problems
    grids,      \* heap: Grid object -> its _cells, a sequence of row addresses
    rows,       \* heap: row list address -> sequence of domains
    Q,          \* AC3.consistency: the list Q
    ac3,        \* AC3.consistency: "idle", "running" or "returned"
    cgrid,      \* AC3.consistency: the Grid it was called on
    ret,        \* AC3.consistency: the value it returned
    result,     \* AC3.consistency: <<result1, result2, result3>> of the last pass
    popped,     \* AC3.consistency: the coordinates popped so far in this call
    stack,      \* Backtracking.search: the activation records, outermost first
    rb,         \* Backtracking.search: the value the last finished call returned
    returned,   \* main: what search returned for each selector
    calls       \* main: number of top-level calls of search made

vars == <<puzzle, pc, grids, rows, Q, ac3, cgrid, ret, result, popped, stack, rb,
          returned, calls>>

---------------------------------------------------------------------------
(* Grid *)

Box == 3
Width == Box * Box
Digits == 1..Width
Dot == 0
Chars == {Dot} \cup Digits
CompleteDomain == [k \in 1..Width |-> k]
Coords == (0..(Width - 1)) \X (0..(Width - 1))

None == <<>>
G == 0

Cell(rws, gr, i, j) == rws[gr[i + 1]][j + 1]

SetCell(rws, gr, i, j, d) == [rws EXCEPT ![gr[i + 1]][j + 1] = d]

ContentOf(grs, rws, gid) == [r \in 1..Len(grs[gid]) |-> rws[grs[gid][r]]]

Content(gid) == ContentOf(grids, rows, gid)

Fresh(used) ==
    CHOOSE x \in 0..Cardinality(used) : x \notin used /\ \A y \in 0..(x - 1) : y \in used

RECURSIVE FreshSeq(_, _)
FreshSeq(used, n) ==
    IF n = 0 THEN <<>>
    ELSE <<Fresh(used)>> \o FreshSeq(used \cup {Fresh(used)}, n - 1)

Range(f) == {f[x] : x \in DOMAIN f}

Live(grs, rws) ==
    [a \in (DOMAIN rws) \cap UNION {Range(grs[gid]) : gid \in DOMAIN grs} |-> rws[a]]

Drop(grs, gids) == [gid \in (DOMAIN grs) \ gids |-> grs[gid]]

ReadRows(p) ==
    [r \in 1..(Len(p) \div Width) |->
        [c \in 1..Width |->
            LET ch == p[(r - 1) * Width + c]
            IN IF ch = Dot THEN CompleteDomain ELSE <<ch>>]]

is_solved(rws, gr) ==
    \A i \in 0..(Width - 1) : \A j \in 0..(Width - 1) : Len(Cell(rws, gr, i, j)) = 1

(* Variant of copy: the new Grid's _cells holds the row lists of the old one. *)
copy_shallow(grs, rws, gid) ==
    LET id == Fresh(DOMAIN grs)
    IN [id |-> id,
        grids |-> [x \in (DOMAIN grs) \cup {id} |-> IF x = id THEN grs[gid] ELSE grs[x]],
        rows |-> rws]

copy(grs, rws, gid) ==
    LET id == Fresh(DOMAIN grs)
        addrs == FreshSeq(DOMAIN rws, Len(grs[gid]))
    IN [id |-> id,
        grids |-> [x \in (DOMAIN grs) \cup {id} |-> IF x = id THEN addrs ELSE grs[x]],
        rows |-> [a \in (DOMAIN rws) \cup Range(addrs) |->
                    IF a \in DOMAIN rws THEN rws[a]
                    ELSE rws[grs[gid][CHOOSE r \in 1..Len(addrs) : addrs[r] = a]]]]

---------------------------------------------------------------------------
(* VarSelector *)

(* for j in range(grid.get_width()), in row i *)
RECURSIVE FirstAvailableRow(_, _, _, _)
FirstAvailableRow(rws, gr, i, j) ==
    IF j >= Width THEN None
    ELSE IF Len(Cell(rws, gr, i, j)) > 1 THEN <<i, j>>
         ELSE FirstAvailableRow(rws, gr, i, j + 1)

(* for i in range(grid.get_width()) *)
RECURSIVE FirstAvailableScan(_, _, _)
FirstAvailableScan(rws, gr, i) ==
    IF i >= Width THEN None
    ELSE LET found == FirstAvailableRow(rws, gr, i, 0)
         IN IF found # None THEN found ELSE FirstAvailableScan(rws, gr, i + 1)

FirstAvailable_select_variable(rws, gr) == FirstAvailableScan(rws, gr, 0)

(* Variant of MRVCell: a later cell of the same size replaces the choice. *)
MRVCellLastTie(rws, gr, i, j, best) ==
    LET n == Len(Cell(rws, gr, i, j))
    IN IF n > 1 /\ (best.remain_value = None \/ n <= best.remain_value[1])
       THEN [remain_value |-> <<n>>, variable |-> <<i, j>>]
       ELSE best

(* The body of the loops of MRV.select_variable for cell (i, j); best holds
   the locals remain_value, which is None or <<n>>, and variable. *)
MRVCell(rws, gr, i, j, best) ==
    LET n == Len(Cell(rws, gr, i, j))
    IN IF n > 1
       THEN LET first == IF best.remain_value = None
                         THEN [remain_value |-> <<n>>, variable |-> <<i, j>>]
                         ELSE best
            IN IF n < first.remain_value[1]
               THEN [remain_value |-> <<n>>, variable |-> <<i, j>>]
               ELSE first
       ELSE best

(* for j in range(grid.get_width()), in row i: an iteration leaves the locals
   as they are or assigns both *)
RECURSIVE MRVRow(_, _, _, _, _)
MRVRow(rws, gr, i, j, best) ==
    IF j >= Width THEN best
    ELSE LET next == MRVCell(rws, gr, i, j, best)
         IN IF next = best
            THEN MRVRow(rws, gr, i, j + 1, best)
            ELSE MRVRow(rws, gr, i, j + 1, next)

(* for i in range(grid.get_width()) *)
RECURSIVE MRVScan(_, _, _, _)
MRVScan(rws, gr, i, best) ==
    IF i >= Width THEN best.variable
    ELSE LET next == MRVRow(rws, gr, i, 0, best)
         IN IF next = best
            THEN MRVScan(rws, gr, i + 1, best)
            ELSE MRVScan(rws, gr, i + 1, next)

MRV_select_variable(rws, gr) ==
    MRVScan(rws, gr, 0, [remain_value |-> None, variable |-> None])

select_variable(sel, rws, gr) ==
    IF sel = "FirstAvailable" THEN FirstAvailable_select_variable(rws, gr)
    ELSE MRV_select_variable(rws, gr)

---------------------------------------------------------------------------
(* AC3 *)

(* str.replace(old, ''): the string without the occurrences of old, found
   left to right and not overlapping; an empty old leaves it as it is. *)
RECURSIVE Replace(_, _)
Replace(s, old) ==
    IF Len(old) = 0 \/ Len(s) < Len(old) THEN s
    ELSE IF SubSeq(s, 1, Len(old)) = old
         THEN Replace(SubSeq(s, Len(old) + 1, Len(s)), old)
         ELSE <<s[1]>> \o Replace(Tail(s), old)

(* Variant of NewDomain: receiver and argument of replace exchanged. *)
NewDomainSwapped(domain, value) == Replace(value, domain)

(* The expression domain.replace(value, '') of the three removals. *)
NewDomain(domain, value) == Replace(domain, value)

(* Variant of remove_domain_row: the test len(old) > 1 of the append is
   missing. *)
RECURSIVE RowLoopAppendAll(_, _, _, _, _, _)
RowLoopAppendAll(rws, gr, row, column, j, variables_assigned) ==
    IF j >= Width THEN [rows |-> rws, assigned |-> variables_assigned, failed |-> FALSE]
    ELSE IF j = column
    THEN RowLoopAppendAll(rws, gr, row, column, j + 1, variables_assigned)
    ELSE LET new_domain == Replace(Cell(rws, gr, row, j), Cell(rws, gr, row, column))
         IN IF Len(new_domain) = 0
            THEN [rows |-> rws, assigned |-> None, failed |-> TRUE]
            ELSE RowLoopAppendAll(SetCell(rws, gr, row, j, new_domain), gr, row, column,
                                  j + 1,
                                  IF Len(new_domain) = 1
                                  THEN Append(variables_assigned, <<row, j>>)
                                  ELSE variables_assigned)

remove_domain_row_append_all(rws, gr, row, column) ==
    RowLoopAppendAll(rws, gr, row, column, 0, <<>>)

RECURSIVE RowLoop(_, _, _, _, _, _)
RowLoop(rws, gr, row, column, j, variables_assigned) ==
    IF j >= Width THEN [rows |-> rws, assigned |-> variables_assigned, failed |-> FALSE]
    ELSE IF j = column THEN RowLoop(rws, gr, row, column, j + 1, variables_assigned)
    ELSE LET new_domain == NewDomain(Cell(rws, gr, row, j), Cell(rws, gr, row, column))
         IN IF Len(new_domain) = 0
            THEN [rows |-> rws, assigned |-> None, failed |-> TRUE]
            ELSE RowLoop(SetCell(rws, gr, row, j, new_domain), gr, row, column, j + 1,
                         IF Len(new_domain) = 1 /\ Len(Cell(rws, gr, row, j)) > 1
                         THEN Append(variables_assigned, <<row, j>>)
                         ELSE variables_assigned)

remove_domain_row(rws, gr, row, column) == RowLoop(rws, gr, row, column, 0, <<>>)

(* Variant of remove_domain_column: new_domain is stored before it is tested. *)
RECURSIVE ColumnLoopStoreFirst(_, _, _, _, _, _)
ColumnLoopStoreFirst(rws, gr, row, column, j, variables_assigned) ==
    IF j >= Width THEN [rows |-> rws, assigned |-> variables_assigned, failed |-> FALSE]
    ELSE IF j = row
    THEN ColumnLoopStoreFirst(rws, gr, row, column, j + 1, variables_assigned)
    ELSE LET new_domain == Replace(Cell(rws, gr, j, column), Cell(rws, gr, row, column))
             stored == SetCell(rws, gr, j, column, new_domain)
         IN IF Len(new_domain) = 0
            THEN [rows |-> stored, assigned |-> None, failed |-> TRUE]
            ELSE ColumnLoopStoreFirst(stored, gr, row, column, j + 1,
                                      IF Len(new_domain) = 1
                                         /\ Len(Cell(rws, gr, j, column)) > 1
                                      THEN Append(variables_assigned, <<j, column>>)
                                      ELSE variables_assigned)

remove_domain_column_store_first(rws, gr, row, column) ==
    ColumnLoopStoreFirst(rws, gr, row, column, 0, <<>>)

RECURSIVE ColumnLoop(_, _, _, _, _, _)
ColumnLoop(rws, gr, row, column, j, variables_assigned) ==
    IF j >= Width THEN [rows |-> rws, assigned |-> variables_assigned, failed |-> FALSE]
    ELSE IF j = row THEN ColumnLoop(rws, gr, row, column, j + 1, variables_assigned)
    ELSE LET new_domain == NewDomain(Cell(rws, gr, j, column), Cell(rws, gr, row, column))
         IN IF Len(new_domain) = 0
            THEN [rows |-> rws, assigned |-> None, failed |-> TRUE]
            ELSE ColumnLoop(SetCell(rws, gr, j, column, new_domain), gr, row, column, j + 1,
                            IF Len(new_domain) = 1 /\ Len(Cell(rws, gr, j, column)) > 1
                            THEN Append(variables_assigned, <<j, column>>)
                            ELSE variables_assigned)

remove_domain_column(rws, gr, row, column) == ColumnLoop(rws, gr, row, column, 0, <<>>)

RECURSIVE UnitLoop(_, _, _, _, _, _)
UnitLoop(rws, gr, row, column, k, variables_assigned) ==
    LET row_init == (row \div Box) * Box
        column_init == (column \div Box) * Box
        i == row_init + (k \div Box)
        j == column_init + (k % Box)
    IN IF k >= Box * Box
       THEN [rows |-> rws, assigned |-> variables_assigned, failed |-> FALSE]
       ELSE IF i = row /\ j = column
       THEN UnitLoop(rws, gr, row, column, k + 1, variables_assigned)
       ELSE LET new_domain == NewDomain(Cell(rws, gr, i, j), Cell(rws, gr, row, column))
            IN IF Len(new_domain) = 0
               THEN [rows |-> rws, assigned |-> None, failed |-> TRUE]
               ELSE UnitLoop(SetCell(rws, gr, i, j, new_domain), gr, row, column, k + 1,
                             IF Len(new_domain) = 1 /\ Len(Cell(rws, gr, i, j)) > 1
                             THEN Append(variables_assigned, <<i, j>>)
                             ELSE variables_assigned)

remove_domain_unit(rws, gr, row, column) == UnitLoop(rws, gr, row, column, 0, <<>>)

(* for j in range(grid.get_width()), in row i *)
RECURSIVE SeedRow(_, _, _, _)
SeedRow(rws, gr, i, j) ==
    IF j >= Width THEN <<>>
    ELSE IF Len(Cell(rws, gr, i, j)) = 1
         THEN <<(<<i, j>>)>> \o SeedRow(rws, gr, i, j + 1)
         ELSE SeedRow(rws, gr, i, j + 1)

(* for i in range(grid.get_width()) *)
RECURSIVE SeedScan(_, _, _)
SeedScan(rws, gr, i) ==
    IF i >= Width THEN <<>>
    ELSE SeedRow(rws, gr, i, 0) \o SeedScan(rws, gr, i + 1)

(* Variant of ConsistencyPass: the removal in the unit is left out. *)
ConsistencyPassNoUnit(rws, gr, q) ==
    LET variable == q[Len(q)]
        r1 == remove_domain_row(rws, gr, variable[1], variable[2])
        r2 == remove_domain_column(r1.rows, gr, variable[1], variable[2])
    IN [variable |-> variable,
        rows |-> r2.rows,
        result |-> <<r1.failed, r2.failed, FALSE>>,
        Q |-> SubSeq(q, 1, Len(q) - 1) \o r1.assigned \o r2.assigned]

(* Variant of ConsistencyPass: the coordinates a pass assigned replace the
   ones waiting in Q. *)
ConsistencyPassDropsRest(rws, gr, q) ==
    LET variable == q[Len(q)]
        r1 == remove_domain_row(rws, gr, variable[1], variable[2])
        r2 == remove_domain_column(r1.rows, gr, variable[1], variable[2])
        r3 == remove_domain_unit(r2.rows, gr, variable[1], variable[2])
    IN [variable |-> variable,
        rows |-> r3.rows,
        result |-> <<r1.failed, r2.failed, r3.failed>>,
        Q |-> IF r1.assigned \o r2.assigned \o r3.assigned = <<>>
              THEN SubSeq(q, 1, Len(q) - 1)
              ELSE r1.assigned \o r2.assigned \o r3.assigned]

(* One pass of the while loop of consistency: Q.pop(), the three removals,
   then either the contradiction or the appends to Q. *)
ConsistencyPass(rws, gr, q) ==
    LET variable == q[Len(q)]
        r1 == remove_domain_row(rws, gr, variable[1], variable[2])
        r2 == remove_domain_column(r1.rows, gr, variable[1], variable[2])
        r3 == remove_domain_unit(r2.rows, gr, variable[1], variable[2])
    IN [variable |-> variable,
        rows |-> r3.rows,
        result |-> <<r1.failed, r2.failed, r3.failed>>,
        Q |-> SubSeq(q, 1, Len(q) - 1) \o r1.assigned \o r2.assigned \o r3.assigned]

---------------------------------------------------------------------------
(* The puzzles main() is run on *)

(* The solved grid of the puzzle in the docstring of read_file with sixteen
   cells emptied: preprocessing does not solve it and the two selectors
   branch on different cells. *)
Fixture ==
    << 4,0,0, 3,6,9, 8,2,0,
       0,0,2, 0,0,8, 9,4,0,
       9,0,8, 0,2,4, 3,1,6,
       8,2,0, 4,0,7, 1,6,9,
       7,9,0, 0,8,6, 4,3,2,
       0,4,0, 9,0,2, 7,5,8,
       2,8,9, 6,4,3, 5,7,1,
       5,0,0, 2,9,1, 6,8,4,
       1,6,4, 8,7,5, 2,9,3 >>

(* The positions of the line that vary over all characters. *)
EditCells == <<5, 12, 66>>

NumEdited == 2

RECURSIVE Edited(_, _)
Edited(ps, n) ==
    IF n = 0 THEN ps
    ELSE Edited({[p EXCEPT ![EditCells[n]] = ch] : p \in ps, ch \in Chars}, n - 1)

Puzzles == Edited({Fixture}, NumEdited)

---------------------------------------------------------------------------
(* main, for one line of the problem file *)

Selectors == {"FirstAvailable", "MRV"}

Top == stack[Len(stack)]

SetTop(f) == [stack EXCEPT ![Len(stack)] = f]

Frame(gid, sel) ==
    [grid |-> gid, var_selector |-> sel, at |-> "entry", variable |-> None,
     values |-> <<>>, k |-> 0, grid_copy |-> None]

Init ==
    /\ puzzle \in Puzzles
    /\ pc = "read"
    /\ grids = (G :> <<>>)
    /\ rows = <<>>
    /\ Q = <<>>
    /\ ac3 = "idle"
    /\ cgrid = G
    /\ ret = TRUE
    /\ result = <<FALSE, FALSE, FALSE>>
    /\ popped = <<>>
    /\ stack = <<>>
    /\ rb = None
    /\ returned = [sel \in Selectors |-> None]
    /\ calls = 0

(* g = Grid(); g.read_file(p) *)
ReadFile ==
    /\ pc = "read"
    /\ LET rr == ReadRows(puzzle)
           addrs == FreshSeq({}, Len(rr))
       IN /\ grids' = [grids EXCEPT ![G] = addrs]
          /\ rows' = [a \in Range(addrs) |-> rr[CHOOSE r \in 1..Len(rr) : addrs[r] = a]]
    /\ pc' = "preprocess"
    /\ UNCHANGED <<puzzle, Q, ac3, cgrid, ret, result, popped, stack, rb, returned, calls>>

(* pre_process_consistency up to its call of consistency *)
PreProcess ==
    /\ pc = "preprocess"
    /\ ac3 = "idle"
    /\ Q' = SeedScan(rows, grids[G], 0)
    /\ cgrid' = G
    /\ ac3' = "running"
    /\ result' = <<FALSE, FALSE, FALSE>>
    /\ popped' = <<>>
    /\ UNCHANGED <<puzzle, pc, grids, rows, ret, stack, rb, returned, calls>>

(* Variant of ConsistencyLoop: a contradiction returns True, as the docstring
   of consistency words it. *)
ConsistencyLoopInverted ==
    /\ ac3 = "running"
    /\ Q # <<>>
    /\ LET pass == ConsistencyPass(rows, grids[cgrid], Q)
       IN /\ rows' = pass.rows
          /\ result' = pass.result
          /\ popped' = Append(popped, pass.variable)
          /\ IF pass.result[1] = TRUE \/ pass.result[2] = TRUE \/ pass.result[3] = TRUE
             THEN /\ ac3' = "returned"
                  /\ ret' = TRUE
                  /\ Q' = <<>>
             ELSE /\ Q' = pass.Q
                  /\ UNCHANGED <<ac3, ret>>
    /\ UNCHANGED <<puzzle, pc, grids, cgrid, stack, rb, returned, calls>>

(* consistency: one pass of `while Q` *)
ConsistencyLoop ==
    /\ ac3 = "running"
    /\ Q # <<>>
    /\ LET pass == ConsistencyPass(rows, grids[cgrid], Q)
       IN /\ rows' = pass.rows
          /\ result' = pass.result
          /\ popped' = Append(popped, pass.variable)
          /\ IF pass.result[1] = TRUE \/ pass.result[2] = TRUE \/ pass.result[3] = TRUE
             THEN /\ ac3' = "returned"
                  /\ ret' = FALSE
                  /\ Q' = <<>>
             ELSE /\ Q' = pass.Q
                  /\ UNCHANGED <<ac3, ret>>
    /\ UNCHANGED <<puzzle, pc, grids, cgrid, stack, rb, returned, calls>>

(* consistency: Q is empty *)
ConsistencyExit ==
    /\ ac3 = "running"
    /\ Q = <<>>
    /\ ac3' = "returned"
    /\ ret' = TRUE
    /\ UNCHANGED <<puzzle, pc, grids, rows, Q, cgrid, result, popped, stack, rb, returned,
                   calls>>

(* pre_process_consistency returns success; main returns False without it *)
PreProcessReturn ==
    /\ pc = "preprocess"
    /\ ac3 = "returned"
    /\ ac3' = "idle"
    /\ pc' = IF ret THEN "first_available" ELSE "returned_false"
    /\ UNCHANGED <<puzzle, grids, rows, Q, cgrid, ret, result, popped, stack, rb, returned,
                   calls>>

Selector == IF pc = "first_available" THEN "FirstAvailable" ELSE "MRV"

(* main calls search(g, selector) *)
MainSearch ==
    /\ pc \in {"first_available", "mrv"}
    /\ stack = <<>>
    /\ rb = None
    /\ stack' = <<Frame(G, Selector)>>
    /\ calls' = calls + 1
    /\ UNCHANGED <<puzzle, pc, grids, rows, Q, ac3, cgrid, ret, result, popped, rb,
                   returned>>

(* The activation on top of the stack returns val; its grid_copy is no longer
   referenced unless it is the value returned. *)
Return(val) ==
    LET dead == Range(Top.grid_copy) \ (IF val[1] = "Grid" THEN {val[2]} ELSE {})
    IN /\ stack' = SubSeq(stack, 1, Len(stack) - 1)
       /\ rb' = val
       /\ grids' = Drop(grids, dead)
       /\ rows' = Live(Drop(grids, dead), rows)

(* Variant of DiscardValue: the new string is stored in the cell. *)
DiscardValueStored(rws, gr, variable, value) ==
    SetCell(rws, gr, variable[1], variable[2],
            Replace(Cell(rws, gr, variable[1], variable[2]), <<value>>))

(* The statement grid.get_cells()[i][j].replace(value, '') after a failed
   value: the new string is computed and dropped. *)
DiscardValue(rws, gr, variable, value) == rws

(* Variant of SearchEntry: the values of the domain are taken from the last
   to the first. *)
SearchEntryDescending ==
    /\ stack # <<>>
    /\ Top.at = "entry"
    /\ IF is_solved(rows, grids[Top.grid])
       THEN /\ Return(<<"Grid", Top.grid>>)
            /\ UNCHANGED pc
       ELSE LET variable == select_variable(Top.var_selector, rows, grids[Top.grid])
            IN IF variable = None
               THEN /\ pc' = "crashed"
                    /\ stack' = <<>>
                    /\ UNCHANGED <<grids, rows, rb>>
               ELSE /\ stack' = SetTop([Top EXCEPT !.variable = variable,
                                           !.values =
                                               LET d == Cell(rows, grids[Top.grid],
                                                             variable[1], variable[2])
                                               IN [n \in 1..Len(d) |-> d[Len(d) + 1 - n]],
                                           !.k = 1,
                                           !.at = "loop"])
                    /\ UNCHANGED <<pc, grids, rows, rb>>
    /\ UNCHANGED <<puzzle, Q, ac3, cgrid, ret, result, popped, returned, calls>>

(* search: is_solved, then select_variable *)
SearchEntry ==
    /\ stack # <<>>
    /\ Top.at = "entry"
    /\ IF is_solved(rows, grids[Top.grid])
       THEN /\ Return(<<"Grid", Top.grid>>)
            /\ UNCHANGED pc
       ELSE LET variable == select_variable(Top.var_selector, rows, grids[Top.grid])
            IN IF variable = None
               THEN /\ pc' = "crashed"
                    /\ stack' = <<>>
                    /\ UNCHANGED <<grids, rows, rb>>
               ELSE /\ stack' = SetTop([Top EXCEPT !.variable = variable,
                                           !.values = Cell(rows, grids[Top.grid],
                                                           variable[1], variable[2]),
                                           !.k = 1,
                                           !.at = "loop"])
                    /\ UNCHANGED <<pc, grids, rows, rb>>
    /\ UNCHANGED <<puzzle, Q, ac3, cgrid, ret, result, popped, returned, calls>>

(* search: the next value of the for loop: copy, assign, call consistency;
   the previous grid_copy loses its last reference *)
SearchTry ==
    /\ stack # <<>>
    /\ Top.at = "loop"
    /\ Top.k <= Len(Top.values)
    /\ LET value == Top.values[Top.k]
           c == copy(grids, rows, Top.grid)
           assigned == SetCell(c.rows, c.grids[c.id], Top.variable[1], Top.variable[2],
                               <<value>>)
       IN /\ grids' = Drop(c.grids, Range(Top.grid_copy))
          /\ rows' = Live(Drop(c.grids, Range(Top.grid_copy)), assigned)
          /\ cgrid' = c.id
          /\ stack' = SetTop([Top EXCEPT !.grid_copy = <<c.id>>, !.at = "ac3"])
    /\ Q' = <<Top.variable>>
    /\ ac3' = "running"
    /\ result' = <<FALSE, FALSE, FALSE>>
    /\ popped' = <<>>
    /\ UNCHANGED <<puzzle, pc, ret, rb, returned, calls>>

(* search: the for loop is over *)
SearchFail ==
    /\ stack # <<>>
    /\ Top.at = "loop"
    /\ Top.k > Len(Top.values)
    /\ Return(<<"False">>)
    /\ UNCHANGED <<puzzle, pc, Q, ac3, cgrid, ret, result, popped, returned, calls>>

(* Variant of SearchConsistent: the value of consistency is read as the
   docstring of consistency describes it, True for a contradiction. *)
SearchConsistentInverted ==
    /\ stack # <<>>
    /\ Top.at = "ac3"
    /\ ac3 = "returned"
    /\ ac3' = "idle"
    /\ IF ~ret
       THEN /\ stack' = Append(SetTop([Top EXCEPT !.at = "rec"]),
                               Frame(Top.grid_copy[1], Top.var_selector))
            /\ UNCHANGED rows
       ELSE /\ stack' = SetTop([Top EXCEPT !.k = Top.k + 1, !.at = "loop"])
            /\ rows' = DiscardValue(rows, grids[Top.grid], Top.variable,
                                    Top.values[Top.k])
    /\ UNCHANGED <<puzzle, pc, grids, Q, cgrid, ret, result, popped, rb, returned, calls>>

(* Variant of SearchConsistent: a value that fails propagation ends the loop
   over the domain with the failure value. *)
SearchConsistentGivesUp ==
    /\ stack # <<>>
    /\ Top.at = "ac3"
    /\ ac3 = "returned"
    /\ ac3' = "idle"
    /\ IF ret
       THEN /\ stack' = Append(SetTop([Top EXCEPT !.at = "rec"]),
                               Frame(Top.grid_copy[1], Top.var_selector))
            /\ UNCHANGED <<grids, rows, rb>>
       ELSE Return(<<"False">>)
    /\ UNCHANGED <<puzzle, pc, Q, cgrid, ret, result, popped, returned, calls>>

(* search: consistency has returned *)
SearchConsistent ==
    /\ stack # <<>>
    /\ Top.at = "ac3"
    /\ ac3 = "returned"
    /\ ac3' = "idle"
    /\ IF ret
       THEN /\ stack' = Append(SetTop([Top EXCEPT !.at = "rec"]),
                               Frame(Top.grid_copy[1], Top.var_selector))
            /\ UNCHANGED rows
       ELSE /\ stack' = SetTop([Top EXCEPT !.k = Top.k + 1, !.at = "loop"])
            /\ rows' = DiscardValue(rows, grids[Top.grid], Top.variable,
                                    Top.values[Top.k])
    /\ UNCHANGED <<puzzle, pc, grids, Q, cgrid, ret, result, popped, rb, returned, calls>>

(* search: the recursive call has returned rb *)
SearchRecursed ==
    /\ stack # <<>>
    /\ Top.at = "rec"
    /\ rb # None
    /\ IF rb # <<"False">>
       THEN Return(rb)
       ELSE /\ rb' = None
            /\ stack' = SetTop([Top EXCEPT !.k = Top.k + 1, !.at = "loop"])
            /\ rows' = DiscardValue(rows, grids[Top.grid], Top.variable,
                                    Top.values[Top.k])
            /\ UNCHANGED grids
    /\ UNCHANGED <<puzzle, pc, Q, ac3, cgrid, ret, result, popped, returned, calls>>

(* main: search(g, selector).print(); False has no print *)
MainPrint ==
    /\ pc \in {"first_available", "mrv"}
    /\ stack = <<>>
    /\ rb # None
    /\ rb' = None
    /\ IF rb = <<"False">>
       THEN /\ returned' = [returned EXCEPT ![Selector] = <<"False">>]
            /\ pc' = "crashed"
            /\ UNCHANGED <<grids, rows>>
       ELSE /\ returned' = [returned EXCEPT ![Selector] = <<"Grid", Content(rb[2])>>]
            /\ pc' = IF pc = "first_available" THEN "mrv" ELSE "done"
            /\ grids' = Drop(grids, {rb[2]} \ {G})
            /\ rows' = Live(Drop(grids, {rb[2]} \ {G}), rows)
    /\ UNCHANGED <<puzzle, Q, ac3, cgrid, ret, result, popped, stack, calls>>

Next ==
    \/ ReadFile
    \/ PreProcess
    \/ ConsistencyLoop
    \/ ConsistencyExit
    \/ PreProcessReturn
    \/ MainSearch
    \/ SearchEntry
    \/ SearchTry
    \/ SearchFail
    \/ SearchConsistent
    \/ SearchRecursed
    \/ MainPrint

Spec == Init /\ [][Next]_vars

(* The while loop of consistency keeps running: its exit is taken when it is
   enabled, and so is its next pass.  The second condition is
   WF_vars(ConsistencyLoop) written out: the pass is enabled exactly when the
   call is running with a non-empty Q, and it is the only step that changes
   popped during a call. *)
FairSpec ==
    /\ Spec
    /\ WF_vars(ConsistencyExit)
    /\ \/ []<>~(ac3 = "running" /\ Q # <<>>)
       \/ []<><<popped' # popped>>_vars

---------------------------------------------------------------------------
(* A client of Grid.copy: it holds a parsed grid and a copy of it, and changes
   either of them the way the loop of search changes grid_copy, by assigning a
   value of the selected variable's domain and running consistency. *)

MaxAssigns == 2

GridPuzzles == {Fixture}

GridInit ==
    /\ puzzle \in GridPuzzles
    /\ pc = "grid"
    /\ LET rr == ReadRows(puzzle)
           addrs == FreshSeq({}, Len(rr))
       IN /\ grids = (G :> addrs)
          /\ rows = [a \in Range(addrs) |-> rr[CHOOSE r \in 1..Len(rr) : addrs[r] = a]]
    /\ Q = <<>>
    /\ ac3 = "idle"
    /\ cgrid = G
    /\ ret = TRUE
    /\ result = <<FALSE, FALSE, FALSE>>
    /\ popped = <<>>
    /\ stack = <<>>
    /\ rb = None
    /\ returned = [sel \in Selectors |-> None]
    /\ calls = 0

(* grid_copy = grid.copy() *)
GridCopy ==
    /\ pc = "grid"
    /\ ac3 = "idle"
    /\ DOMAIN grids = {G}
    /\ LET c == copy(grids, rows, G)
       IN /\ grids' = c.grids
          /\ rows' = c.rows
    /\ UNCHANGED <<puzzle, pc, Q, ac3, cgrid, ret, result, popped, stack, rb, returned, calls>>

(* g.get_cells()[i][j] = value; ac3.consistency(g, [(i, j)]), for either grid *)
GridAssign ==
    /\ pc = "grid"
    /\ ac3 = "idle"
    /\ calls < MaxAssigns
    /\ \E gid \in DOMAIN grids : \E sel \in Selectors :
        LET variable == select_variable(sel, rows, grids[gid])
        IN /\ variable # None
           /\ \E value \in Range(Cell(rows, grids[gid], variable[1], variable[2])) :
                rows' = SetCell(rows, grids[gid], variable[1], variable[2], <<value>>)
           /\ Q' = <<variable>>
           /\ cgrid' = gid
    /\ ac3' = "running"
    /\ result' = <<FALSE, FALSE, FALSE>>
    /\ popped' = <<>>
    /\ calls' = calls + 1
    /\ UNCHANGED <<puzzle, pc, grids, ret, stack, rb, returned>>

(* consistency has returned to the client *)
GridConsistent ==
    /\ pc = "grid"
    /\ ac3 = "returned"
    /\ ac3' = "idle"
    /\ popped' = <<>>
    /\ UNCHANGED <<puzzle, pc, grids, rows, Q, cgrid, ret, result, stack, rb, returned, calls>>

GridNext ==
    \/ GridCopy
    \/ GridAssign
    \/ ConsistencyLoop
    \/ ConsistencyExit
    \/ GridConsistent

GridSpec == GridInit /\ [][GridNext]_vars

---------------------------------------------------------------------------
(* A client of AC3.consistency: after preprocessing it assigns one value of
   the cell MRV selects on two copies of the grid and runs consistency on each
   with Q = [variable]: on the first as written, with Q.pop(), on the second
   with the loop taking any element of Q. *)

(* Two lines of the family of Puzzles: on the first every value of the
   selected cell propagates to a solved grid, on the second one value leaves
   open cells and the other meets a contradiction. *)
OrderPuzzles ==
    {[Fixture EXCEPT ![EditCells[1]] = 1, ![EditCells[2]] = Dot],
     [Fixture EXCEPT ![EditCells[2]] = 6]}

A == 1
B == 2

OrderInit ==
    /\ puzzle \in OrderPuzzles
    /\ pc = "read"
    /\ grids = (G :> <<>>)
    /\ rows = <<>>
    /\ Q = <<>>
    /\ ac3 = "idle"
    /\ cgrid = G
    /\ ret = TRUE
    /\ result = <<FALSE, FALSE, FALSE>>
    /\ popped = <<>>
    /\ stack = <<>>
    /\ rb = None
    /\ returned = [variable |-> None, pop |-> None]
    /\ calls = 0

(* grid_copy = grid.copy(); grid_copy.get_cells()[i][j] = value, twice;
   ac3.consistency(grid_copy, [variable]) on the first copy *)
OrderTrial ==
    /\ pc = "preprocess"
    /\ ac3 = "returned"
    /\ ret
    /\ LET variable == MRV_select_variable(rows, grids[G])
       IN
        /\ variable # None
        /\ \E value \in Range(Cell(rows, grids[G], variable[1], variable[2])) :
            LET c1 == copy(grids, rows, G)
                c2 == copy(c1.grids, c1.rows, G)
                r1 == SetCell(c2.rows, c2.grids[c1.id], variable[1], variable[2], <<value>>)
                r2 == SetCell(r1, c2.grids[c2.id], variable[1], variable[2], <<value>>)
            IN /\ grids' = c2.grids
               /\ rows' = r2
               /\ cgrid' = c1.id
               /\ Q' = <<variable>>
               /\ returned' = [returned EXCEPT !.variable = variable]
    /\ pc' = "pop"
    /\ ac3' = "running"
    /\ result' = <<FALSE, FALSE, FALSE>>
    /\ popped' = <<>>
    /\ UNCHANGED <<puzzle, ret, stack, rb, calls>>

(* consistency has returned on the first copy; it is called on the second *)
OrderSecond ==
    /\ pc = "pop"
    /\ ac3 = "returned"
    /\ returned' = [returned EXCEPT !.pop = <<ret, popped>>]
    /\ pc' = "any"
    /\ cgrid' = B
    /\ Q' = <<returned.variable>>
    /\ ac3' = "running"
    /\ result' = <<FALSE, FALSE, FALSE>>
    /\ popped' = <<>>
    /\ UNCHANGED <<puzzle, grids, rows, ret, stack, rb, calls>>

(* Q with its k-th element moved to the end, where pop() takes it *)
TakeAt(q, k) == SubSeq(q, 1, k - 1) \o SubSeq(q, k + 1, Len(q)) \o <<q[k]>>

(* consistency: one pass of `while Q` that takes any element of Q *)
OrderLoop ==
    /\ pc = "any"
    /\ ac3 = "running"
    /\ \E k \in 1..Len(Q) :
        LET pass == ConsistencyPass(rows, grids[cgrid], TakeAt(Q, k))
        IN /\ rows' = pass.rows
           /\ result' = pass.result
           /\ popped' = Append(popped, pass.variable)
           /\ IF pass.result[1] = TRUE \/ pass.result[2] = TRUE \/ pass.result[3] = TRUE
              THEN /\ ac3' = "returned"
                   /\ ret' = FALSE
                   /\ Q' = <<>>
              ELSE /\ Q' = pass.Q
                   /\ UNCHANGED <<ac3, ret>>
    /\ UNCHANGED <<puzzle, pc, grids, cgrid, stack, rb, returned, calls>>

OrderNext ==
    \/ ReadFile
    \/ PreProcess
    \/ (pc # "any" /\ ConsistencyLoop)
    \/ ConsistencyExit
    \/ OrderTrial
    \/ OrderSecond
    \/ OrderLoop

OrderSpec == OrderInit /\ [][OrderNext]_vars

---------------------------------------------------------------------------
(* What a solution is, independently of the solver *)

Index(coord) == coord[1] * Width + coord[2]

SameUnit(a, b) ==
    \/ a[1] = b[1]
    \/ a[2] = b[2]
    \/ (a[1] \div Box = b[1] \div Box /\ a[2] \div Box = b[2] \div Box)

PeerTable == [a \in Coords |-> {b \in Coords : b # a /\ SameUnit(a, b)}]

UnitSets ==
    {{c \in Coords : c[1] = i} : i \in 0..(Width - 1)}
    \cup {{c \in Coords : c[2] = j} : j \in 0..(Width - 1)}
    \cup {{c \in Coords : c[1] \div Box = bi /\ c[2] \div Box = bj} :
            bi \in 0..(Box - 1), bj \in 0..(Box - 1)}

At(m, c) == m[c[1] + 1][c[2] + 1]

(* m is a grid in which every cell holds one digit and every row, column and
   box holds every digit once *)
Solved(m) ==
    /\ \A c \in Coords : Len(At(m, c)) = 1 /\ At(m, c)[1] \in Digits
    /\ \A u \in UnitSets : \A d \in Digits : Cardinality({c \in u : At(m, c) = <<d>>}) = 1

CoordOf(k) == <<k \div Width, k % Width>>

(* The ways to complete acc, the digits chosen for the first Len(acc) cells in
   row-major order, with one digit of each later cell's domain so that no two
   cells of a unit hold the same digit. *)
RECURSIVE Complete(_, _)
Complete(m, acc) ==
    IF Len(acc) = Width * Width THEN {acc}
    ELSE LET c == CoordOf(Len(acc))
             fits == {d \in Range(At(m, c)) :
                        \A b \in PeerTable[c] :
                            IF Index(b) < Len(acc) THEN acc[Index(b) + 1] # d
                            ELSE At(m, b) # <<d>>}
         IN UNION {Complete(m, Append(acc, d)) : d \in fits}

Solutions(m) == Complete(m, <<>>)

AsGrid(sol) == [r \in 1..Width |-> [c \in 1..Width |-> <<sol[(r - 1) * Width + c]>>]]

RowDuplicate(p) ==
    \E a, b \in 1..Len(p) :
        /\ a < b
        /\ (a - 1) \div Width = (b - 1) \div Width
        /\ p[a] # Dot
        /\ p[a] = p[b]

LiveGrids == {gid \in DOMAIN grids : Len(grids[gid]) = Width}

---------------------------------------------------------------------------
(* C1: whenever search returns a grid, to main or to an enclosing call, every
   cell of it holds exactly one digit and every row, column and box contains
   each digit exactly once. *)
SearchSound ==
    /\ \A sel \in Selectors :
        (returned[sel] # None /\ returned[sel][1] = "Grid") => Solved(returned[sel][2])
    /\ (rb # None /\ rb[1] = "Grid") => Solved(Content(rb[2]))

SearchSoundWitness ==
    /\ rb # None
    /\ rb[1] = "Grid"
    /\ Len(stack) >= 2
    /\ Solved(Content(rb[2]))

(* C2: for a puzzle with exactly one solution whose preprocessing succeeded,
   search returns that solution with FirstAvailable and with MRV, so the two
   returned grids are equal cell by cell. *)
SelectorsAgree ==
    pc \in {"done", "crashed"} =>
        LET sols == Solutions(ReadRows(puzzle))
        IN Cardinality(sols) = 1 =>
            \A sel \in Selectors :
                returned[sel] = <<"Grid", AsGrid(CHOOSE sol \in sols : TRUE)>>

SelectorsAgreeWitness ==
    /\ pc = "done"
    /\ Cardinality(Solutions(ReadRows(puzzle))) = 1
    /\ ~is_solved(rows, grids[G])
    /\ returned["FirstAvailable"] = returned["MRV"]

(* C3: when two cells of a row of the initial grid are given the same digit,
   pre_process_consistency returns False and search is never called. *)
RowDuplicateRejected ==
    RowDuplicate(puzzle) =>
        /\ pc \in {"read", "preprocess", "returned_false"}
        /\ calls = 0
        /\ stack = <<>>
        /\ (pc = "preprocess" /\ ac3 = "returned") => ret = FALSE

RowDuplicateRejectedWitness ==
    /\ RowDuplicate(puzzle)
    /\ pc = "returned_false"
    /\ ret = FALSE

Shrinks(after, before) ==
    \A c \in Coords :
        /\ Range(At(after, c)) \subseteq Range(At(before, c))
        /\ Len(At(after, c)) <= Len(At(before, c))

(* C4: no step of propagation, and none of the row, column and unit removals
   inside a pass of it, lets a cell's domain gain a value or grow. *)
DomainsNeverGrow ==
    [][/\ \A gid \in LiveGrids \cap DOMAIN grids' :
            Shrinks(ContentOf(grids', rows', gid), Content(gid))
       /\ (ac3 = "running" /\ Q # <<>>) =>
            LET gr == grids[cgrid]
                variable == Q[Len(Q)]
                r1 == remove_domain_row(rows, gr, variable[1], variable[2])
                r2 == remove_domain_column(r1.rows, gr, variable[1], variable[2])
                r3 == remove_domain_unit(r2.rows, gr, variable[1], variable[2])
            IN /\ Shrinks(ContentOf(grids, r1.rows, cgrid), Content(cgrid))
               /\ Shrinks(ContentOf(grids, r2.rows, cgrid), ContentOf(grids, r1.rows, cgrid))
               /\ Shrinks(ContentOf(grids, r3.rows, cgrid), ContentOf(grids, r2.rows, cgrid))
      ]_vars

DomainsNeverGrowWitness ==
    /\ ac3 = "running"
    /\ popped # <<>>
    /\ \E c \in Coords : Len(At(Content(cgrid), c)) \in 2..(Width - 1)

(* C5: while a call of search is active, and between the two calls main makes,
   the grid the call was given keeps every cell domain: the trial assignments
   and propagations of the branches do not reach it. *)
SearchLeavesGridUnchanged ==
    [][/\ \A k \in 1..Len(stack) :
            /\ stack[k].grid \in DOMAIN grids'
            /\ ContentOf(grids', rows', stack[k].grid) = Content(stack[k].grid)
       /\ pc \in {"first_available", "mrv"} => ContentOf(grids', rows', G) = Content(G)
      ]_vars

SearchLeavesGridUnchangedWitness ==
    /\ stack # <<>>
    /\ Top.grid = G
    /\ Top.at = "loop"
    /\ Top.k > 1

(* C6: after Grid.copy the two grids are independent: a change to a cell
   domain of one of them, by assignment or by propagation, leaves every cell
   domain of the other as it was, in both directions. *)
CopyIsIndependent ==
    [][\A gid \in DOMAIN grids :
        gid # cgrid' =>
            /\ gid \in DOMAIN grids'
            /\ ContentOf(grids', rows', gid) = Content(gid)]_vars

CopyIsIndependentWitness ==
    /\ ac3 = "idle"
    /\ \E a, b \in DOMAIN grids : \E c1, c2 \in Coords :
        /\ a # b
        /\ ~(Range(At(Content(a), c1)) \subseteq Range(At(Content(b), c1)))
        /\ ~(Range(At(Content(b), c2)) \subseteq Range(At(Content(a), c2)))

(* C7: consistency returns True when one of the three removals reported a
   contradiction and False when Q emptied without one. *)
ConsistencyReturnsContradiction ==
    ac3 = "returned" => (ret = (TRUE \in Range(result)))

(* C8: search returns the failure value exactly when no choice of one digit
   from each cell's domain meets the row, column and box constraints, for the
   preprocessed grid and for every grid of a recursive call; the value it
   returns is either the failure value or a grid. *)
SearchFailsIffUnsolvable ==
    /\ (stack = <<>> /\ rb = None /\ pc \in {"mrv", "done", "crashed"}) =>
        \A sel \in Selectors :
            returned[sel] # None =>
                ((returned[sel] = <<"False">>) <=> (Solutions(Content(G)) = {}))
    /\ (stack # <<>> /\ rb # None /\ Top.at = "rec") =>
        ((rb = <<"False">>) <=> (Solutions(Content(Top.grid_copy[1])) = {}))
    /\ rb # None => (rb = <<"False">> \/ (rb[1] = "Grid" /\ rb[2] \in LiveGrids))

SearchFailsIffUnsolvableWitness ==
    /\ pc = "crashed"
    /\ returned["FirstAvailable"] = <<"False">>
    /\ Solutions(Content(G)) = {}

MRVChoice(m, v) ==
    LET undetermined == {c \in Coords : Len(At(m, c)) > 1}
    IN IF undetermined = {} THEN v = None
       ELSE /\ v \in undetermined
            /\ \A c \in undetermined :
                /\ Len(At(m, v)) <= Len(At(m, c))
                /\ Len(At(m, c)) = Len(At(m, v)) => Index(v) <= Index(c)

(* C9: on every grid MRV.select_variable returns the first cell in row-major
   order among the cells of the smallest domain size greater than 1, and None
   exactly when there is no such cell; selecting changes nothing in the grid. *)
MRVSelectsFirstSmallest ==
    /\ [](\A gid \in LiveGrids :
            MRVChoice(Content(gid), MRV_select_variable(rows, grids[gid])))
    /\ [][(/\ stack # <<>>
           /\ Top.at = "entry"
           /\ Len(stack') = Len(stack)
           /\ stack'[Len(stack)].at = "loop")
          => (grids' = grids /\ rows' = rows)]_vars

MRVSelectsFirstSmallestWitness ==
    /\ stack # <<>>
    /\ Top.var_selector = "MRV"
    /\ Top.at = "loop"
    /\ Top.variable # FirstAvailable_select_variable(rows, grids[Top.grid])
    /\ \E c \in Coords :
        /\ c # Top.variable
        /\ Len(At(Content(Top.grid), c)) = Len(Top.values)

(* C10: every cell of every grid, the grids on which propagation reported a
   contradiction and the trial copies included, holds a non-empty domain of
   digits 1..9, and every coordinate waiting in Q has a domain of one digit. *)
DomainsNonEmpty ==
    /\ \A gid \in LiveGrids : \A c \in Coords :
        /\ Len(At(Content(gid), c)) >= 1
        /\ Range(At(Content(gid), c)) \subseteq Digits
    /\ ac3 = "running" =>
        \A k \in 1..Len(Q) : Len(Cell(rows, grids[cgrid], Q[k][1], Q[k][2])) = 1

DomainsNonEmptyWitness ==
    /\ ac3 = "returned"
    /\ ret = FALSE
    /\ stack # <<>>
    /\ cgrid \in LiveGrids
    /\ popped # <<>>


Distinct(seq) == \A a, b \in 1..Len(seq) : a # b => seq[a] # seq[b]

(* C11: a call of consistency ends; within it no coordinate is processed
   twice; a coordinate enters Q only in the pass in which its domain goes from
   more than one digit to one; and a coordinate leaves Q only by being popped
   and processed, so none is left when the call returns without a
   contradiction. *)
PropagationTerminates ==
    /\ [](ac3 \in {"running", "returned"} =>
            /\ Distinct(popped \o Q)
            /\ Len(popped) <= Width * Width
            /\ (ac3 = "returned" /\ ret) => Q = <<>>)
    /\ [][(ac3 = "running" /\ Q # <<>>) =>
            /\ popped' = Append(popped, Q[Len(Q)])
            /\ ac3' = "running" =>
                /\ Len(Q') >= Len(Q) - 1
                /\ SubSeq(Q', 1, Len(Q) - 1) = SubSeq(Q, 1, Len(Q) - 1)
            /\ \A k \in 1..Len(Q') :
                (\A n \in 1..Len(Q) : Q[n] # Q'[k]) =>
                    /\ Len(Cell(rows, grids[cgrid], Q'[k][1], Q'[k][2])) > 1
                    /\ Len(Cell(rows', grids[cgrid], Q'[k][1], Q'[k][2])) = 1
      ]_vars
    /\ (ac3 = "running") ~> (ac3 = "returned")

PropagationTerminatesWitness ==
    /\ ac3 = "returned"
    /\ ret
    /\ stack # <<>>
    /\ Len(popped) >= 3


(* C12: the outcome of consistency does not depend on the order in which the
   loop takes the coordinates out of Q: taking any element reports a
   contradiction exactly when pop() does, and when neither does, both calls
   leave the same domain in every cell. *)
PropagationConfluent ==
    (pc = "any" /\ ac3 = "returned") =>
        /\ ret = returned.pop[1]
        /\ ret => Content(B) = Content(A)

PropagationConfluentWitness ==
    /\ pc = "any"
    /\ ac3 = "returned"
    /\ ret
    /\ Len(popped) >= 3
    /\ popped # returned.pop[2]
    /\ Range(popped) = Range(returned.pop[2])


LexLess(a, b) ==
    \E k \in 1..Len(a) : a[k] < b[k] /\ \A n \in 1..(k - 1) : a[n] = b[n]

LexMin(sols) == CHOOSE s \in sols : \A t \in sols : t = s \/ LexLess(s, t)

(* C13: search tries the values of the selected cell in the order the domain
   stores them, which is ascending, one after the other, and returns the grid
   of the first value whose branch yields one without trying a later value;
   with FirstAvailable the grid returned, at the top level and by every nested
   call, is the smallest solution of the grid searched when the 81 digits are
   read in row-major order. *)
SearchReturnsFirst ==
    /\ []((stack = <<>> /\ rb = None /\ pc \in {"mrv", "done"}) =>
            returned["FirstAvailable"] =
                <<"Grid", AsGrid(LexMin(Solutions(Content(G))))>>)
    /\ []((/\ stack # <<>>
           /\ rb # None
           /\ rb # <<"False">>
           /\ Top.at = "rec"
           /\ Top.var_selector = "FirstAvailable") =>
            Content(rb[2]) = AsGrid(LexMin(Solutions(Content(Top.grid_copy[1])))))
    /\ [](\A n \in 1..Len(stack) :
            stack[n].at # "entry" =>
                /\ \A a, b \in 1..Len(stack[n].values) :
                    a < b => stack[n].values[a] < stack[n].values[b]
                /\ stack[n].k \in 1..(Len(stack[n].values) + 1)
                /\ stack[n].at \in {"ac3", "rec"} =>
                    Cell(rows, grids[stack[n].grid_copy[1]],
                         stack[n].variable[1], stack[n].variable[2])
                        = <<stack[n].values[stack[n].k]>>)
    /\ [][stack # <<>> =>
            /\ (rb # None /\ rb # <<"False">>) =>
                /\ rb' = rb
                /\ stack' = SubSeq(stack, 1, Len(stack) - 1)
            /\ (Len(stack') = Len(stack) /\ stack'[Len(stack')].k # Top.k) =>
                \/ Top.at = "entry" /\ stack'[Len(stack')].k = 1
                \/ /\ stack'[Len(stack')].k = Top.k + 1
                   /\ stack'[Len(stack')].values = Top.values
                   /\ \/ Top.at = "ac3" /\ ~ret
                      \/ Top.at = "rec" /\ rb = <<"False">>
      ]_vars

SearchReturnsFirstWitness ==
    /\ pc = "done"
    /\ Cardinality(Solutions(Content(G))) > 1
    /\ returned["FirstAvailable"] = <<"Grid", AsGrid(LexMin(Solutions(Content(G))))>>
    /\ returned["MRV"] # returned["FirstAvailable"]

=============================================================================
